---------------------------- MODULE Spec2Model ----------------------------
(***************************************************************************)
(* A model of the MDX reader of mdict-rs:                                  *)
(*   - records_offset        (src/mdict/mdx.rs)         SpecOffsets        *)
(*   - record_block_parser   (src/mdict/recordblock.rs) SpecBlock          *)
(*   - Mdx::items            (src/mdict/mdx.rs)         SpecItems          *)
(*   - parse_record_blocks   (src/mdict/recordblock.rs) SpecIndex          *)
(*   - utf16_le_string       (src/unpack.rs)            SpecUtf16          *)
(*   - query                 (src/query/mod.rs)         SpecQuery          *)
(* Each component has its own specification; the variables of the other    *)
(* components stay at their idle values.                                   *)
(***************************************************************************)
EXTENDS Integers, Sequences, FiniteSets, TLC

VARIABLES
    \* records_offset
    entries, record_blocks_size, overflow_checks,
    positions, i, k, pre_blocks_dsize_sum, pre_blocks_csize_sum, pc,
    block_index, tie,
    \* query
    dbs, word, file, opened, q_result, q_pc,
    \* utf16_le_string
    slice, u16_result, u16_pc,
    \* parse_record_blocks
    version, records_num, record_info_len, data_pairs, ri_result, ri_pc,
    \* record_block_parser
    b_size, b_dsize, block_buf, b_result, b_pc,
    \* Mdx::items
    records_offset, record_block_buf, it, yielded, it_pc

varsOffsets ==
    <<entries, record_blocks_size, overflow_checks, positions, i, k,
      pre_blocks_dsize_sum, pre_blocks_csize_sum, pc, block_index, tie>>

varsQuery == <<dbs, word, file, opened, q_result, q_pc>>

varsUtf16 == <<slice, u16_result, u16_pc>>

varsIndex == <<version, records_num, record_info_len, data_pairs, ri_result, ri_pc>>

varsBlock == <<b_size, b_dsize, block_buf, b_result, b_pc>>

varsItems == <<records_offset, record_block_buf, it, yielded, it_pc>>

vars == <<varsOffsets, varsQuery, varsUtf16, varsIndex, varsBlock, varsItems>>

\* the variables of the other components
notOffsets == <<varsQuery, varsUtf16, varsIndex, varsBlock, varsItems>>

notQuery == <<varsOffsets, varsUtf16, varsIndex, varsBlock, varsItems>>

notUtf16 == <<varsOffsets, varsQuery, varsIndex, varsBlock, varsItems>>

\* overflow_checks, the build's profile, is an input of parse_record_blocks too
notIndex == <<varsOffsets, varsQuery, varsUtf16, varsBlock, varsItems>>

notBlock == <<varsOffsets, varsQuery, varsUtf16, varsIndex, varsItems>>

notItems == <<varsOffsets, varsQuery, varsUtf16, varsIndex, varsBlock>>

(***************************************************************************)
(* Bounds of the model.                                                    *)
(***************************************************************************)
MaxEntries == 2
MaxBlocks == 3
MaxDsize == 2
MaxStart == 3
MaxDbs == 2
MaxSliceLen == 5
MaxPayload == 2
MaxItemBlocks == 2

(***************************************************************************)
(* usize.  TLC's integers are 32 bits wide, so the 64-bit usize of the     *)
(* build is modelled by a 30-bit one: every input of the model is far      *)
(* below either modulus, and a wrapped difference is far above every       *)
(* input under both.                                                       *)
(***************************************************************************)
UsizeMod == 2^30

\* a - b on usize in a build without overflow checks (release profile)
WrappingSub(a, b) == (a - b + UsizeMod) % UsizeMod

\* a - b on usize overflows (panics when overflow checks are on)
SubOverflows(a, b) == a < b

\* the compressed sizes a block of dsize bytes declares in the inputs: the
\* 8-byte prefix and the payload, stored (dsize bytes); a block of two bytes
\* may also be compressed to one
CSizes(dsize) == {8 + dsize} \cup (IF dsize = 2 THEN {9} ELSE {})

RECURSIVE SeqsUpTo(_, _)
SeqsUpTo(S, n) ==
    IF n = 0 THEN {<<>>}
    ELSE LET shorter == SeqsUpTo(S, n - 1)
         IN  shorter \cup {Append(s, x) : s \in {t \in shorter : Len(t) = n - 1}, x \in S}

\* struct Entry (keyblock.rs, used by mdx.rs): the headword and the logical
\* offset; the headword of the j-th entry is represented by j
Entry(j, start) == [text |-> j, record_start_in_de_buf |-> start]

\* struct RecordBlockSize
RecordBlockSize ==
    {[csize |-> c, dsize |-> d] : <<c, d>> \in {cd \in (8..(8 + MaxDsize)) \X (0..MaxDsize) :
                                              cd[1] \in CSizes(cd[2])}}

\* struct RecordOffset
RecordOffset(text, bstart, csize, dsize, rstart, rend) ==
    [text |-> text, block_start_in_buf |-> bstart,
     block_csize |-> csize, block_dsize |-> dsize,
     record_start_in_de_block |-> rstart, record_end_in_de_block |-> rend]

(***************************************************************************)
(* records_offset, one loop iteration per step.  i is the number of        *)
(* entries drained (the code's index i), k the 1-based index of the block  *)
(* the for loop is at (Len + 1 once the loop is over).  block_index and    *)
(* tie are history: the block each pushed offset was pushed in, and the    *)
(* pairs <<entry, block>> for which the comparison of line 132 met         *)
(* equality.  overflow_checks is the build's profile ("on": debug, "off":  *)
(* release); it is "unknown" until the first subtraction that overflows,   *)
(* the only place where it shows.                                          *)
(***************************************************************************)
OffsetsInit ==
    /\ \E starts \in SeqsUpTo(0..MaxStart, MaxEntries) :
         entries = [j \in 1..Len(starts) |-> Entry(j, starts[j])]
    /\ record_blocks_size \in SeqsUpTo(RecordBlockSize, MaxBlocks)
    /\ overflow_checks = "unknown"
    /\ positions = <<>>
    /\ i = 0
    /\ k = 1
    /\ pre_blocks_dsize_sum = 0
    /\ pre_blocks_csize_sum = 0
    /\ pc = "loop"
    /\ block_index = <<>>
    /\ tie = {}

InBlock == pc = "loop" /\ k <= Len(record_blocks_size)

\* history: entry idx is examined at block kk (line 132) and starts exactly at
\* the end of that block
Tie(idx, kk) ==
    IF entries[idx].record_start_in_de_buf
         = pre_blocks_dsize_sum + record_blocks_size[kk].dsize
    THEN {<<idx, kk>>}
    ELSE {}

\* line 132: the entry belongs to a later block
BelongsLater_gt(start, pre, dsize) == start > pre + dsize
BelongsLater(start, pre, dsize) == start >= pre + dsize

\* line 152
RecordStart_block(start, pre) == pre
RecordStart(start, pre) == WrappingSub(start, pre)

\* lines 137-145
RecordEnd(idx, pre, dsize) ==
    IF idx - 1 < Len(entries) - 1
    THEN WrappingSub(entries[idx + 1].record_start_in_de_buf, pre)
    ELSE dsize

\* the subtractions of lines 141 and 152 for entry idx
DrainOverflows(idx, pre) ==
    \/ /\ idx - 1 < Len(entries) - 1
       /\ SubOverflows(entries[idx + 1].record_start_in_de_buf, pre)
    \/ SubOverflows(entries[idx].record_start_in_de_buf, pre)

\* line 158
AdvanceCsize_d(pre, block) == pre + block.dsize
AdvanceCsize(pre, block) == pre + block.csize

\* lines 128-155: the while body pushes the offset of entry i
Drain ==
    /\ InBlock
    /\ i < Len(entries)
    /\ LET entry == entries[i + 1]
           block == record_blocks_size[k]
       IN  /\ ~BelongsLater(entry.record_start_in_de_buf, pre_blocks_dsize_sum, block.dsize)
           /\ IF DrainOverflows(i + 1, pre_blocks_dsize_sum)
              THEN overflow_checks /= "on" /\ overflow_checks' = "off"
              ELSE UNCHANGED overflow_checks
           /\ tie' = tie \cup Tie(i + 1, k)
           /\ positions' = Append(positions,
                RecordOffset(entry.text, pre_blocks_csize_sum, block.csize, block.dsize,
                             RecordStart(entry.record_start_in_de_buf, pre_blocks_dsize_sum),
                             RecordEnd(i + 1, pre_blocks_dsize_sum, block.dsize)))
           /\ block_index' = Append(block_index, k)
    /\ i' = i + 1
    /\ UNCHANGED <<entries, record_blocks_size, k,
                   pre_blocks_dsize_sum, pre_blocks_csize_sum, pc>>
    /\ UNCHANGED notOffsets

\* lines 141, 152 with overflow checks: "attempt to subtract with overflow"
DrainPanic ==
    /\ InBlock
    /\ i < Len(entries)
    /\ LET entry == entries[i + 1]
           block == record_blocks_size[k]
       IN  /\ ~BelongsLater(entry.record_start_in_de_buf, pre_blocks_dsize_sum, block.dsize)
           /\ DrainOverflows(i + 1, pre_blocks_dsize_sum)
           /\ overflow_checks /= "off"
    /\ overflow_checks' = "on"
    /\ pc' = "panic"
    /\ UNCHANGED <<entries, record_blocks_size, positions, i, k,
                   pre_blocks_dsize_sum, pre_blocks_csize_sum, block_index, tie>>
    /\ UNCHANGED notOffsets

\* lines 128, 132-134, 157-158: the while loop ends (no entry left, or break)
\* and the sums advance
NextBlock ==
    /\ InBlock
    /\ LET block == record_blocks_size[k]
           brk == /\ i < Len(entries)
                  /\ BelongsLater(entries[i + 1].record_start_in_de_buf,
                                  pre_blocks_dsize_sum, block.dsize)
       IN  /\ i >= Len(entries) \/ brk
           /\ tie' = IF i < Len(entries) THEN tie \cup Tie(i + 1, k) ELSE tie
           /\ pre_blocks_dsize_sum' = pre_blocks_dsize_sum + block.dsize
           /\ pre_blocks_csize_sum' = AdvanceCsize(pre_blocks_csize_sum, block)
    /\ k' = k + 1
    /\ UNCHANGED <<entries, record_blocks_size, overflow_checks, positions, i, pc,
                   block_index>>
    /\ UNCHANGED notOffsets

\* line 160
Return ==
    /\ pc = "loop"
    /\ k > Len(record_blocks_size)
    /\ pc' = "done"
    /\ UNCHANGED <<entries, record_blocks_size, overflow_checks, positions, i, k,
                   pre_blocks_dsize_sum, pre_blocks_csize_sum, block_index, tie>>
    /\ UNCHANGED notOffsets

OffsetsNext ==
    \/ Drain
    \/ DrainPanic
    \/ NextBlock
    \/ Return

\* records_offset is not running
OffsetsIdle ==
    /\ entries = <<>>
    /\ record_blocks_size = <<>>
    /\ overflow_checks = "unknown"
    /\ positions = <<>>
    /\ i = 0
    /\ k = 1
    /\ pre_blocks_dsize_sum = 0
    /\ pre_blocks_csize_sum = 0
    /\ pc = "idle"
    /\ block_index = <<>>
    /\ tie = {}

(***************************************************************************)
(* query (src/query/mod.rs).  MDX_FILES is the configured list; dbs[f] is   *)
(* the database file "{file}.db" of its f-th entry: whether it holds the   *)
(* MDX_INDEX table (Connection::open creates an empty database for a       *)
(* missing file, and prepare then fails), and the rows of the table, a     *)
(* function from the text column to the definition column (NoRow where no  *)
(* row has that text; text is the primary key).  opened is the sequence of *)
(* databases opened so far.                                                *)
(***************************************************************************)
Words == {"w1", "w2"}

\* definitions stored in the tables; a stored definition may be any text
Defs == {"d1", "not found"}

NoRow == "<no row>"

\* a database file without the MDX_INDEX table
NoTable == [has_table |-> FALSE, rows |-> [w \in Words |-> NoRow]]

Databases ==
    {[has_table |-> TRUE, rows |-> r] : r \in [Words -> Defs \cup {NoRow}]} \cup {NoTable}

QueryInit ==
    /\ dbs \in SeqsUpTo(Databases, MaxDbs)
    /\ word \in Words
    /\ file = 1
    /\ opened = <<>>
    /\ q_result = ""
    /\ q_pc = "for"

\* line 12, 16-17: select * from MDX_INDEX WHERE text = :word limit 1; the
\* rows of the result (at most one), each row the columns <<text, definition>>
SelectWhereText(db, w) ==
    IF db.rows[w] = NoRow THEN <<>> ELSE << <<w, db.rows[w]>> >>

\* line 19: row.get(idx), idx counted from 0
RowGet_text(row) == row[1]
RowGet(row) == row[2]

\* lines 8-21, one database: a row was found and its definition is returned
QueryFound ==
    /\ q_pc = "for"
    /\ file <= Len(dbs)
    /\ dbs[file].has_table
    /\ LET rows == SelectWhereText(dbs[file], word)
       IN  /\ rows /= <<>>
           /\ q_result' = RowGet(rows[1])
    /\ opened' = Append(opened, file)
    /\ q_pc' = "done"
    /\ UNCHANGED <<dbs, word, file>>
    /\ UNCHANGED notQuery

\* lines 8-21, one database: no row, on to the next file
QueryMiss ==
    /\ q_pc = "for"
    /\ file <= Len(dbs)
    /\ dbs[file].has_table
    /\ SelectWhereText(dbs[file], word) = <<>>
    /\ opened' = Append(opened, file)
    /\ file' = file + 1
    /\ UNCHANGED <<dbs, word, q_result, q_pc>>
    /\ UNCHANGED notQuery

\* lines 11-13: prepare(...).unwrap() on a database without the table
QueryPanic ==
    /\ q_pc = "for"
    /\ file <= Len(dbs)
    /\ ~dbs[file].has_table
    /\ opened' = Append(opened, file)
    /\ q_pc' = "panic"
    /\ UNCHANGED <<dbs, word, file, q_result>>
    /\ UNCHANGED notQuery

\* line 22
QueryNotFound ==
    /\ q_pc = "for"
    /\ file > Len(dbs)
    /\ q_result' = "not found"
    /\ q_pc' = "done"
    /\ UNCHANGED <<dbs, word, file, opened>>
    /\ UNCHANGED notQuery

QueryNext ==
    \/ QueryFound
    \/ QueryMiss
    \/ QueryPanic
    \/ QueryNotFound

\* query is not running
QueryIdle ==
    /\ dbs = <<>>
    /\ word = ""
    /\ file = 1
    /\ opened = <<>>
    /\ q_result = ""
    /\ q_pc = "idle"

(***************************************************************************)
(* utf16_le_string (src/unpack.rs).  The bytes of the inputs are drawn     *)
(* from 0x00, 0x41, 0xD8 and 0xDC, which make the code units 0x0041 ("A"), *)
(* 0xD800 and 0xD841 (high surrogates), 0xDC00 and 0xDC41 (low             *)
(* surrogates) and others.                                                 *)
(***************************************************************************)
Bytes16 == {0, 65, 216, 220}

\* Option<String>: None, or Some(the scalar values of the string)
None == [some |-> FALSE, chars |-> <<>>]

Some(chars) == [some |-> TRUE, chars |-> chars]

\* line 41
UnitCount(s) == Len(s) \div 2

\* lines 42-43: u16::from_le_bytes([slice[2 * i], slice[2 * i + 1]])
CodeUnits(s) == [n \in 1..UnitCount(s) |-> s[2 * n - 1] + 256 * s[2 * n]]

IsHighSurrogate(u) == 55296 <= u /\ u <= 56319

IsLowSurrogate(u) == 56320 <= u /\ u <= 57343

RECURSIVE DecodeUtf16From(_, _)
\* line 44: std::char::decode_utf16(iter).collect::<Result<String, _>>().ok(),
\* from unit n on: a unit outside the surrogate range is a scalar, a high
\* surrogate followed by a low one is one scalar, any other surrogate is an
\* error and the collected result is None
DecodeUtf16From(u, n) ==
    IF n > Len(u) THEN Some(<<>>)
    ELSE IF ~IsHighSurrogate(u[n]) /\ ~IsLowSurrogate(u[n])
         THEN LET rest == DecodeUtf16From(u, n + 1)
              IN  IF rest.some THEN Some(<<u[n]>> \o rest.chars) ELSE None
    ELSE IF IsHighSurrogate(u[n]) /\ n < Len(u) /\ IsLowSurrogate(u[n + 1])
         THEN LET rest == DecodeUtf16From(u, n + 2)
                  c == 65536 + (u[n] - 55296) * 1024 + (u[n + 1] - 56320)
              IN  IF rest.some THEN Some(<<c>> \o rest.chars) ELSE None
    ELSE None

utf16_le_string(s) == DecodeUtf16From(CodeUnits(s), 1)

Utf16Init ==
    /\ slice \in SeqsUpTo(Bytes16, MaxSliceLen)
    /\ u16_result = None
    /\ u16_pc = "call"

\* lines 40-45
Utf16Decode ==
    /\ u16_pc = "call"
    /\ u16_result' = utf16_le_string(slice)
    /\ u16_pc' = "done"
    /\ UNCHANGED slice
    /\ UNCHANGED notUtf16

Utf16Next == Utf16Decode

\* utf16_le_string is not running
Utf16Idle ==
    /\ slice = <<>>
    /\ u16_result = None
    /\ u16_pc = "idle"

(***************************************************************************)
(* parse_record_blocks (src/mdict/recordblock.rs), on a 64-bit target.     *)
(* The header fields are 32-bit (V1) or 64-bit (V2) numbers, beyond TLC's  *)
(* integers, so a number is kept exactly, as NumLimbs limbs of 16 bits,    *)
(* least significant first.  data_pairs is the number of complete          *)
(* (csize, dsize) pairs that the bytes after the header hold; a slice is   *)
(* at most isize::MAX bytes long.                                          *)
(***************************************************************************)
NumLimbs == 5

LimbBase == 65536

Small(n) == [p \in 1..NumLimbs |-> IF p = 1 THEN n ELSE 0]

\* 2^e
Pow2(e) == [p \in 1..NumLimbs |-> IF p = (e \div 16) + 1 THEN 2^(e % 16) ELSE 0]

RECURSIVE AddFrom(_, _, _, _)
AddFrom(x, y, p, carry) ==
    IF p > NumLimbs THEN <<>>
    ELSE LET t == x[p] + y[p] + carry
         IN  <<t % LimbBase>> \o AddFrom(x, y, p + 1, t \div LimbBase)

\* x + y, exactly
Add(x, y) == AddFrom(x, y, 1, 0)

RECURSIVE MulFrom(_, _, _, _)
MulFrom(x, m, p, carry) ==
    IF p > NumLimbs THEN <<>>
    ELSE LET t == x[p] * m + carry
         IN  <<t % LimbBase>> \o MulFrom(x, m, p + 1, t \div LimbBase)

\* x * m, exactly (x below 2^64, m at most 16)
Mul(x, m) == MulFrom(x, m, 1, 0)

\* x modulo 2^bits
Wrap(x, bits) == [p \in 1..NumLimbs |-> IF p <= bits \div 16 THEN x[p] ELSE 0]

\* x < 2^bits
Fits(x, bits) == Wrap(x, bits) = x

RECURSIVE LeqFrom(_, _, _)
LeqFrom(x, y, p) ==
    IF p = 0 THEN TRUE
    ELSE IF x[p] /= y[p] THEN x[p] < y[p]
    ELSE LeqFrom(x, y, p - 1)

\* x <= y
Leq(x, y) == LeqFrom(x, y, NumLimbs)

\* lines 36, 51: the width of the header fields, in bits
FieldBits(v) == IF v = "V1" THEN 32 ELSE 64

\* lines 38, 53: the factor of the assertion
PairBytes(v) == IF v = "V1" THEN 8 ELSE 16

\* the values of records_num and record_info_len in the inputs
FieldValues(v) ==
    {Small(0), Small(1), Small(2), Small(8), Small(16), Small(32),
     Pow2(FieldBits(v) - 3), Pow2(FieldBits(v) - 4),
     Add(Pow2(FieldBits(v) - 3), Small(1)), Add(Pow2(FieldBits(v) - 4), Small(1))}

\* the numbers of pairs in the inputs: a slice holds at most isize::MAX bytes
PairCounts(v) ==
    {n \in {Small(0), Small(1), Small(2), Pow2(28), Pow2(29), Add(Pow2(29), Small(1)),
            Pow2(58), Pow2(60)} :
        Leq(Add(Mul(n, PairBytes(v)), Small(1)), Pow2(63))}

IndexInit ==
    /\ version \in {"V1", "V2"}
    /\ records_num \in FieldValues(version)
    /\ record_info_len \in FieldValues(version)
    /\ data_pairs \in PairCounts(version)
    /\ overflow_checks \in {"on", "off"}
    /\ ri_result = ""
    /\ ri_pc = "call"

\* records_num * 8 (V1, u32) or records_num * 16 (V2, u64) overflows
ProductOverflows == ~Fits(Mul(records_num, PairBytes(version)), FieldBits(version))

\* lines 38, 53 with overflow checks: "attempt to multiply with overflow"
IndexOverflowPanic ==
    /\ ri_pc = "call"
    /\ overflow_checks = "on"
    /\ ProductOverflows
    /\ ri_result' = "overflow panic"
    /\ ri_pc' = "done"
    /\ UNCHANGED <<version, records_num, record_info_len, data_pairs>>
    /\ UNCHANGED notIndex

\* the left side of assert_eq! when it is evaluated: the wrapped product
AssertLeft == Wrap(Mul(records_num, PairBytes(version)), FieldBits(version))

\* lines 38, 53: assert_eq! fails
IndexAssertPanic ==
    /\ ri_pc = "call"
    /\ ~(overflow_checks = "on" /\ ProductOverflows)
    /\ AssertLeft /= record_info_len
    /\ ri_result' = "assert panic"
    /\ ri_pc' = "done"
    /\ UNCHANGED <<version, records_num, record_info_len, data_pairs>>
    /\ UNCHANGED notIndex

\* lines 40-46, 55-61: count(...) runs out of input; Mdx::new unwraps the Err
\* (mdx.rs:73)
IndexTruncated ==
    /\ ri_pc = "call"
    /\ ~(overflow_checks = "on" /\ ProductOverflows)
    /\ AssertLeft = record_info_len
    /\ ~Leq(records_num, data_pairs)
    /\ ri_result' = "truncated"
    /\ ri_pc' = "done"
    /\ UNCHANGED <<version, records_num, record_info_len, data_pairs>>
    /\ UNCHANGED notIndex

\* lines 40-46, 55-61: the size table is returned
IndexOk ==
    /\ ri_pc = "call"
    /\ ~(overflow_checks = "on" /\ ProductOverflows)
    /\ AssertLeft = record_info_len
    /\ Leq(records_num, data_pairs)
    /\ ri_result' = "ok"
    /\ ri_pc' = "done"
    /\ UNCHANGED <<version, records_num, record_info_len, data_pairs>>
    /\ UNCHANGED notIndex

IndexNext ==
    \/ IndexOverflowPanic
    \/ IndexAssertPanic
    \/ IndexTruncated
    \/ IndexOk

\* parse_record_blocks is not running
IndexIdle ==
    /\ version = "V1"
    /\ records_num = Small(0)
    /\ record_info_len = Small(0)
    /\ data_pairs = Small(0)
    /\ ri_result = ""
    /\ ri_pc = "idle"

\* the variables of records_offset but the build profile, which
\* parse_record_blocks shares
OffsetsIdleButProfile ==
    /\ entries = <<>>
    /\ record_blocks_size = <<>>
    /\ positions = <<>>
    /\ i = 0
    /\ k = 1
    /\ pre_blocks_dsize_sum = 0
    /\ pre_blocks_csize_sum = 0
    /\ pc = "idle"
    /\ block_index = <<>>
    /\ tie = {}

(***************************************************************************)
(* record_block_parser (src/mdict/recordblock.rs).  block_buf is the       *)
(* buffer from the block's first byte on: the fields of the little-endian  *)
(* word enc, the four checksum bytes, the bytes after them up to the end   *)
(* of the buffer (rest), and what the LZO or zlib decoder of the libraries *)
(* makes of the block's decrypted payload (inflated: Corrupt when the      *)
(* library rejects it).  b_size and b_dsize are the parameters size and    *)
(* dsize; overflow_checks is the build's profile.                          *)
(***************************************************************************)
Corrupt == <<-1>>

RECURSIVE BitXor(_, _, _)
\* a ^ b on n bits
BitXor(a, b, n) ==
    IF n = 0 THEN 0
    ELSE (((a % 2) + (b % 2)) % 2) + 2 * BitXor(a \div 2, b \div 2, n - 1)

Xor8(a, b) == BitXor(a, b, 8)

\* (c >> 4 | c << 4) on a byte
NibbleSwap(c) == (c \div 16) + (c % 16) * 16

\* util::fast_decrypt: p[i] = nibble_swap(c[i]) ^ ((i & 0xFF) ^ key[i mod 16]),
\* i counted from 0
fast_decrypt(c, key) ==
    [n \in 1..Len(c) |->
        Xor8(NibbleSwap(c[n]), Xor8((n - 1) % 256, key[((n - 1) % 16) + 1]))]

\* lines 76-78: the Ripemd128 digest of the checksum bytes, 16 bytes; the
\* digests of the two checksums of the inputs
Checksums == {"c1", "c2"}

Ripemd128(checksum) ==
    IF checksum = "c1"
    THEN [n \in 1..16 |-> (n * 17 + 3) % 256]
    ELSE [n \in 1..16 |-> (n * 29 + 140) % 256]

\* the payload bytes of the inputs
PayloadBytes == {65, 156, 255}

\* lines 72, 74: enc_method and comp_method are 4-bit fields; 0..2 are known
Methods == 0..3

\* lines 80-89: the decrypt stage; Panic for an unknown method
Panic == <<-2>>

Decrypt(enc_method, encrypted, key) ==
    CASE enc_method = 0 -> encrypted
      [] enc_method = 1 -> fast_decrypt(encrypted, key)
      [] enc_method = 2 -> <<>>
      [] OTHER -> Panic

\* lines 94-95, 98-99: what the library's decoder returns for data: no
\* compressed stream is empty, and LZO decodes into a buffer of dsz bytes
LibDecompress(comp_method, data, dsz, buf) ==
    IF data = <<>> \/ buf.inflated = Corrupt THEN Corrupt
    ELSE IF comp_method = 1 /\ Len(buf.inflated) > dsz THEN Corrupt
    ELSE buf.inflated

\* lines 91-103: the decompress stage; Panic for an unknown method and for a
\* decoder error (unwrap)
Decompress(comp_method, data, dsz, buf) ==
    CASE comp_method = 0 -> data
      [] comp_method \in {1, 2} ->
            IF LibDecompress(comp_method, data, dsz, buf) = Corrupt
            THEN Panic
            ELSE LibDecompress(comp_method, data, dsz, buf)
      [] OTHER -> Panic

\* lines 65-108: record_block_parser(size, dsize)(buf).  The result is
\* [status, out]: "ok" and the decoded block, "err" (the parser's Err: the
\* buffer is shorter than size bytes; size - 8 wraps for a size below 8 in a
\* build without overflow checks), or "panic".
record_block_parser(sz, dsz, buf) ==
    IF sz < 8 \/ sz - 8 > Len(buf.rest)
    THEN [status |-> IF sz < 8 /\ overflow_checks = "on" THEN "panic" ELSE "err", out |-> <<>>]
    ELSE LET encrypted == SubSeq(buf.rest, 1, sz - 8)
             data == Decrypt(buf.enc_method, encrypted, Ripemd128(buf.checksum))
             decompressed == IF data = Panic THEN Panic
                             ELSE Decompress(buf.comp_method, data, dsz, buf)
         IN  IF decompressed = Panic
             THEN [status |-> "panic", out |-> <<>>]
             ELSE [status |-> "ok", out |-> decompressed]

\* the outputs the library decoders return in the inputs
Inflated == {Corrupt, <<65>>, <<65, 66>>}

BlockBufs ==
    [enc_method : Methods, comp_method : Methods, checksum : Checksums,
     rest : SeqsUpTo(PayloadBytes, MaxPayload), inflated : Inflated]

BlockInit ==
    /\ block_buf \in BlockBufs
    /\ b_size \in {7} \cup {8 + n : n \in 0..(Len(block_buf.rest) + 1)}
    /\ b_dsize \in 1..MaxPayload
    /\ overflow_checks \in {"on", "off"}
    /\ b_result = [status |-> "", out |-> <<>>]
    /\ b_pc = "call"

\* the block is decoded
BlockOk ==
    /\ b_pc = "call"
    /\ record_block_parser(b_size, b_dsize, block_buf).status = "ok"
    /\ b_result' = record_block_parser(b_size, b_dsize, block_buf)
    /\ b_pc' = "done"
    /\ UNCHANGED <<b_size, b_dsize, block_buf>>
    /\ UNCHANGED notBlock

\* line 70: the buffer is shorter than the block
BlockErr ==
    /\ b_pc = "call"
    /\ record_block_parser(b_size, b_dsize, block_buf).status = "err"
    /\ b_result' = record_block_parser(b_size, b_dsize, block_buf)
    /\ b_pc' = "done"
    /\ UNCHANGED <<b_size, b_dsize, block_buf>>
    /\ UNCHANGED notBlock

\* lines 70, 88, 95, 99, 102: a panic
BlockPanic ==
    /\ b_pc = "call"
    /\ record_block_parser(b_size, b_dsize, block_buf).status = "panic"
    /\ b_result' = record_block_parser(b_size, b_dsize, block_buf)
    /\ b_pc' = "panic"
    /\ UNCHANGED <<b_size, b_dsize, block_buf>>
    /\ UNCHANGED notBlock

BlockNext ==
    \/ BlockOk
    \/ BlockErr
    \/ BlockPanic

\* record_block_parser is not running
BlockIdle ==
    /\ b_size = 0
    /\ b_dsize = 0
    /\ block_buf = [enc_method |-> 0, comp_method |-> 0, checksum |-> "c1",
                    rest |-> <<>>, inflated |-> Corrupt]
    /\ b_result = [status |-> "", out |-> <<>>]
    /\ b_pc = "idle"

(***************************************************************************)
(* Mdx::items and Mdx::find_definition (src/mdict/mdx.rs).                 *)
(* record_block_buf is the retained buffer, block by block (the buffers    *)
(* record_block_parser takes); records_offset is the table Mdx::new built  *)
(* (block_start_in_buf is kept as the index of the block it points at).    *)
(* it is the number of items the iterator has produced, yielded the        *)
(* Records it returned.                                                    *)
(***************************************************************************)
IsCont(b) == 128 <= b /\ b <= 191

\* the range of the second byte after lead byte b (2 to 4 byte sequences)
SecondOk(b, c) ==
    CASE b = 224 -> 160 <= c /\ c <= 191
      [] b = 237 -> 128 <= c /\ c <= 159
      [] b = 240 -> 144 <= c /\ c <= 191
      [] b = 244 -> 128 <= c /\ c <= 143
      [] OTHER -> IsCont(c)

\* the length of the sequence that lead byte b opens (0: not a lead byte)
SeqLen(b) ==
    CASE b < 128 -> 1
      [] 194 <= b /\ b <= 223 -> 2
      [] 224 <= b /\ b <= 239 -> 3
      [] 240 <= b /\ b <= 244 -> 4
      [] OTHER -> 0

\* the bytes of the longest valid prefix of a sequence at position n, at
\* most want of them
RECURSIVE ValidPrefix(_, _, _, _)
ValidPrefix(bs, n, have, want) ==
    IF have = want \/ n + have > Len(bs) THEN have
    ELSE IF have = 1 /\ ~SecondOk(bs[n], bs[n + 1]) THEN have
    ELSE IF have > 1 /\ ~IsCont(bs[n + have]) THEN have
    ELSE ValidPrefix(bs, n, have + 1, want)

\* the scalar value of the complete sequence of len bytes at n
Scalar(bs, n, len) ==
    CASE len = 1 -> bs[n]
      [] len = 2 -> (bs[n] % 32) * 64 + (bs[n + 1] % 64)
      [] len = 3 -> (bs[n] % 16) * 4096 + (bs[n + 1] % 64) * 64 + (bs[n + 2] % 64)
      [] OTHER -> (bs[n] % 8) * 262144 + (bs[n + 1] % 64) * 4096
                  + (bs[n + 2] % 64) * 64 + (bs[n + 3] % 64)

RECURSIVE Utf8LossyFrom(_, _)
\* line 111: String::from_utf8_lossy(bytes).to_string(), as scalar values:
\* every maximal invalid part becomes U+FFFD
Utf8LossyFrom(bs, n) ==
    IF n > Len(bs) THEN <<>>
    ELSE LET want == SeqLen(bs[n])
             have == IF want = 0 THEN 1 ELSE ValidPrefix(bs, n, 1, want)
         IN  IF want /= 0 /\ have = want
             THEN <<Scalar(bs, n, want)>> \o Utf8LossyFrom(bs, n + want)
             ELSE <<65533>> \o Utf8LossyFrom(bs, n + have)

from_utf8_lossy(bs) == Utf8LossyFrom(bs, 1)

\* lines 101-114: find_definition(rs): [status, def], status "ok" or "panic"
\* (the unwrap of a parser Err, a panic of the parser, a slice out of range)
find_definition(rs) ==
    LET parsed == record_block_parser(rs.block_csize, rs.block_dsize,
                                      record_block_buf[rs.block_start_in_buf])
    IN  IF parsed.status /= "ok"
           \/ rs.record_start_in_de_block > rs.record_end_in_de_block
           \/ rs.record_end_in_de_block > Len(parsed.out)
        THEN [status |-> "panic", def |-> <<>>]
        ELSE [status |-> "ok",
              def |-> from_utf8_lossy(SubSeq(parsed.out, rs.record_start_in_de_block + 1,
                                             rs.record_end_in_de_block))]

\* struct Record
Record(text, definition) == [text |-> text, definition |-> definition]

\* the blocks of the inputs: two bytes of payload, which decode to two bytes
\* unless the library rejects them
ItemBlocks ==
    [enc_method : Methods, comp_method : Methods, checksum : {"c1"},
     rest : {<<65, 255>>}, inflated : {Corrupt, <<65, 66>>}]

\* the table of records_offset for blocks of dsize 2 that hold two records of
\* one byte each; the headword of a record is its index
TableOf(blocks) ==
    [j \in 1..(2 * Len(blocks)) |->
        RecordOffset(j, (j + 1) \div 2, 10, 2, (j + 1) % 2, ((j + 1) % 2) + 1)]

ItemsInit ==
    /\ record_block_buf \in SeqsUpTo(ItemBlocks, MaxItemBlocks)
    /\ records_offset = TableOf(record_block_buf)
    /\ overflow_checks \in {"on", "off"}
    /\ it = 0
    /\ yielded = <<>>
    /\ it_pc = "iter"

\* lines 92-98: next() on the iterator of items(): the closure decodes the
\* block of the next RecordOffset and returns the Record
ItemsYield ==
    /\ it_pc = "iter"
    /\ it < Len(records_offset)
    /\ LET rs == records_offset[it + 1]
           def == find_definition(rs)
       IN  /\ def.status = "ok"
           /\ yielded' = Append(yielded, Record(rs.text, def.def))
    /\ it' = it + 1
    /\ UNCHANGED <<records_offset, record_block_buf, it_pc>>
    /\ UNCHANGED notItems

\* lines 92-98, 106, 109: next() panics inside find_definition; the panic
\* unwinds through the caller's loop
ItemsPanic ==
    /\ it_pc = "iter"
    /\ it < Len(records_offset)
    /\ find_definition(records_offset[it + 1]).status = "panic"
    /\ it_pc' = "panic"
    /\ UNCHANGED <<records_offset, record_block_buf, it, yielded>>
    /\ UNCHANGED notItems

\* line 92: the iterator of the table is exhausted, next() returns None
ItemsEnd ==
    /\ it_pc = "iter"
    /\ it >= Len(records_offset)
    /\ it_pc' = "done"
    /\ UNCHANGED <<records_offset, record_block_buf, it, yielded>>
    /\ UNCHANGED notItems

ItemsNext ==
    \/ ItemsYield
    \/ ItemsPanic
    \/ ItemsEnd

\* items is not running
ItemsIdle ==
    /\ records_offset = <<>>
    /\ record_block_buf = <<>>
    /\ it = 0
    /\ yielded = <<>>
    /\ it_pc = "idle"

(***************************************************************************)
(* The specifications.                                                     *)
(***************************************************************************)
InitOffsets == ItemsIdle /\ BlockIdle /\ OffsetsInit /\ QueryIdle /\ Utf16Idle /\ IndexIdle

SpecOffsets == InitOffsets /\ [][OffsetsNext]_vars

InitQuery == ItemsIdle /\ BlockIdle /\ QueryInit /\ OffsetsIdle /\ Utf16Idle /\ IndexIdle

SpecQuery == InitQuery /\ [][QueryNext]_vars

InitUtf16 == ItemsIdle /\ BlockIdle /\ Utf16Init /\ OffsetsIdle /\ QueryIdle /\ IndexIdle

SpecUtf16 == InitUtf16 /\ [][Utf16Next]_vars

InitIndex == ItemsIdle /\ BlockIdle /\ IndexInit /\ OffsetsIdleButProfile /\ QueryIdle /\ Utf16Idle

SpecIndex == InitIndex /\ [][IndexNext]_vars

InitBlock == ItemsIdle /\ BlockInit /\ OffsetsIdleButProfile /\ QueryIdle /\ Utf16Idle /\ IndexIdle

SpecBlock == InitBlock /\ [][BlockNext]_vars

InitItems ==
    ItemsInit /\ OffsetsIdleButProfile /\ QueryIdle /\ Utf16Idle /\ IndexIdle /\ BlockIdle

SpecItems == InitItems /\ [][ItemsNext]_vars

(***************************************************************************)
(* Properties of records_offset.                                           *)
(***************************************************************************)
RECURSIVE SumD(_)
\* the sum of dsize of the first n blocks
SumD(n) == IF n = 0 THEN 0 ELSE SumD(n - 1) + record_blocks_size[n].dsize

RECURSIVE SumC(_)
\* the sum of csize of the first n blocks
SumC(n) == IF n = 0 THEN 0 ELSE SumC(n - 1) + record_blocks_size[n].csize

StartOf(j) == entries[j].record_start_in_de_buf

StrictlyIncreasing == \A a, b \in 1..Len(entries) : a < b => StartOf(a) < StartOf(b)

NonDecreasing == \A a, b \in 1..Len(entries) : a < b => StartOf(a) <= StartOf(b)

\* the pair (block index, record_start_in_de_block) of offset a is below that of b
PairLess(a, b) ==
    \/ block_index[a] < block_index[b]
    \/ /\ block_index[a] = block_index[b]
       /\ positions[a].record_start_in_de_block < positions[b].record_start_in_de_block

\* the blocks after block kk that have dsize > 0
LaterNonEmpty(kk) ==
    {b \in (kk + 1)..Len(record_blocks_size) : record_blocks_size[b].dsize > 0}

Least(S) == CHOOSE x \in S : \A y \in S : x <= y

\* C1: for strictly increasing entries that all start below the sum of
\* dsize, records_offset returns one offset per entry, the j-th for E[j],
\* each with record_start_in_de_block < record_end_in_de_block <= block_dsize.
C1_Coverage ==
    (/\ pc = "done"
     /\ StrictlyIncreasing
     /\ \A j \in 1..Len(entries) : StartOf(j) < SumD(Len(record_blocks_size)))
    => /\ Len(positions) = Len(entries)
       /\ \A j \in 1..Len(positions) :
            /\ positions[j].text = entries[j].text
            /\ positions[j].record_start_in_de_block < positions[j].record_end_in_de_block
            /\ positions[j].record_end_in_de_block <= positions[j].block_dsize

\* an offset pushed for entry j that would be negative in the integers
NegativeOffset(j) ==
    \/ StartOf(j) < SumD(block_index[j] - 1)
    \/ j < Len(entries) /\ StartOf(j + 1) < SumD(block_index[j] - 1)

\* C4: records_offset returns an offset table only if every entry was
\* drained, no record_end_in_de_block exceeds block_dsize and no offset is
\* negative; otherwise the builder fails.
C4_MisalignmentIsFatal ==
    pc = "done"
    => /\ Len(positions) = Len(entries)
       /\ \A j \in 1..Len(positions) :
            /\ positions[j].record_end_in_de_block <= positions[j].block_dsize
            /\ ~NegativeOffset(j)

\* C7: an entry examined at block kk whose record_start_in_de_buf equals the
\* end of block kk (the sum of dsize up to and including kk) is not pushed in
\* block kk; it is pushed in the next block with dsize > 0, with
\* record_start_in_de_block = 0, and it is pushed whenever such a block exists.
C7_BoundaryGoesToNextBlock ==
    \A t \in tie :
        LET j == t[1]
            kk == t[2]
        IN  /\ j <= Len(positions)
               => /\ block_index[j] /= kk
                  /\ LaterNonEmpty(kk) /= {}
                  /\ block_index[j] = Least(LaterNonEmpty(kk))
                  /\ positions[j].record_start_in_de_block = 0
            /\ (pc = "done" /\ LaterNonEmpty(kk) /= {}) => j <= Len(positions)

\* C7 happens: a boundary entry skipped a block of dsize 0 and was pushed in
\* the block after it.
C7_Witness ==
    /\ pc = "done"
    /\ \E t \in tie :
         /\ t[1] <= Len(positions)
         /\ block_index[t[1]] > t[2] + 1
         /\ record_blocks_size[t[2]].dsize > 0

\* C9 as stated: for non-decreasing entries the offset table is strictly
\* increasing in (block index, record_start_in_de_block).
C9_StrictlyIncreasingTable ==
    NonDecreasing
    => \A a, b \in 1..Len(positions) : a < b => PairLess(a, b)

\* C9 amended: for non-decreasing entries the offset table is non-decreasing
\* in (block index, record_start_in_de_block), and strictly increasing
\* between two entries whose record_start_in_de_buf differ.
C9_MonotoneTable ==
    NonDecreasing
    => \A a, b \in 1..Len(positions) :
         a < b => /\ ~PairLess(b, a)
                  /\ StartOf(a) /= StartOf(b) => PairLess(a, b)

\* C9 happens: two entries with different starts were pushed in one block.
C9_Witness ==
    /\ pc = "done"
    /\ NonDecreasing
    /\ Len(positions) = 2
    /\ block_index[1] = block_index[2]
    /\ StartOf(1) /= StartOf(2)

\* C10: an offset pushed in block kk has block_start_in_buf = the sum of csize
\* of the blocks before kk, the csize and dsize of block kk, and
\* record_start_in_de_block = the entry's start minus the sum of dsize of the
\* blocks before kk (as a usize).
C10_BlockCoordinates ==
    \A j \in 1..Len(positions) :
        LET kk == block_index[j]
        IN  /\ positions[j].block_start_in_buf = SumC(kk - 1)
            /\ positions[j].block_csize = record_blocks_size[kk].csize
            /\ positions[j].block_dsize = record_blocks_size[kk].dsize
            /\ positions[j].record_start_in_de_block
                 = (StartOf(j) - SumD(kk - 1)) % UsizeMod
            /\ StartOf(j) >= SumD(kk - 1)
               => positions[j].record_start_in_de_block = StartOf(j) - SumD(kk - 1)

\* C10 happens: the first offset was pushed in the third block, the two
\* blocks before it having received no entry.
C10_Witness ==
    /\ pc = "done"
    /\ Len(positions) >= 1
    /\ block_index[1] = 3
    /\ record_blocks_size[1].dsize > 0

(***************************************************************************)
(* Properties of query.                                                    *)
(***************************************************************************)
\* the databases that hold a row whose text is the word
Matching == {f \in 1..Len(dbs) : dbs[f].has_table /\ dbs[f].rows[word] /= NoRow}

\* the databases were opened in list order, up to and including database n
OpenedUpTo(n) == opened = [f \in 1..n |-> f]

\* what query returns when some database matches, and what it opened
ReturnsFirstMatch ==
    (q_pc = "done" /\ Matching /= {})
    => /\ q_result = dbs[Least(Matching)].rows[word]
       /\ OpenedUpTo(Least(Matching))

\* C3 as stated: query returns the definition of the first database, in list
\* order, that holds a row for the word, without opening a later one, and it
\* returns "not found" if and only if no database holds such a row.
C3_FirstMatchOrNotFound ==
    /\ ReturnsFirstMatch
    /\ q_pc = "done" => (q_result = "not found" <=> Matching = {})

\* C3 amended: as above, but a return of "not found" shows only that no
\* database holds such a row or that the first matching row's definition is
\* itself the text "not found".
C3_FirstMatchOrFallThrough ==
    /\ ReturnsFirstMatch
    /\ (q_pc = "done" /\ Matching = {})
       => q_result = "not found" /\ OpenedUpTo(Len(dbs))
    /\ (q_pc = "done" /\ q_result = "not found")
       => \/ Matching = {}
          \/ dbs[Least(Matching)].rows[word] = "not found"

\* C3 happens: the second database is the first that matches, a later one
\* would match too, and query returned.
C3_Witness ==
    /\ q_pc = "done"
    /\ Len(dbs) >= 2
    /\ Matching /= {}
    /\ Least(Matching) = Len(dbs) - 1
    /\ Len(dbs) \in Matching
    /\ dbs[Len(dbs)].rows[word] /= dbs[Len(dbs) - 1].rows[word]

(***************************************************************************)
(* Properties of utf16_le_string.                                          *)
(***************************************************************************)
\* unit n of u is a surrogate without its partner
Unpaired(u, n) ==
    \/ IsLowSurrogate(u[n]) /\ ~(n > 1 /\ IsHighSurrogate(u[n - 1]))
    \/ IsHighSurrogate(u[n]) /\ ~(n < Len(u) /\ IsLowSurrogate(u[n + 1]))

\* the code units of all the bytes of s that pair up
PairedUnits(s) == [n \in 1..(Len(s) \div 2) |-> s[2 * n - 1] + 256 * s[2 * n]]

\* C6: utf16_le_string returns None whenever the byte length is odd or the
\* code units contain an unpaired surrogate.
C6_OddOrUnpairedFails ==
    (/\ u16_pc = "done"
     /\ \/ Len(slice) % 2 = 1
        \/ \E n \in 1..Len(PairedUnits(slice)) : Unpaired(PairedUnits(slice), n))
    => u16_result = None

(***************************************************************************)
(* Properties of parse_record_blocks.                                      *)
(***************************************************************************)
\* C8: a record header is accepted only when record_info_len equals
\* num_record_blocks x 8 (V1) or x 16 (V2) as exact integers.
C8_AcceptsOnlyExactProduct ==
    (ri_pc = "done" /\ ri_result = "ok")
    => record_info_len = Mul(records_num, IF version = "V1" THEN 8 ELSE 16)

(***************************************************************************)
(* Properties of record_block_parser.                                      *)
(***************************************************************************)
\* C5: with enc_method = 2 the decrypt stage's output has the length of the
\* block_csize - 8 byte payload, so for comp_method = 0 the decoded block
\* has that length (it is the payload XORed with the keystream).
C5_Salsa20KeepsLength ==
    (/\ b_pc = "done"
     /\ b_result.status = "ok"
     /\ block_buf.enc_method = 2
     /\ block_buf.comp_method = 0)
    => Len(b_result.out) = b_size - 8

(***************************************************************************)
(* Properties of Mdx::items.                                               *)
(***************************************************************************)
\* the block's decoder fails: an unsupported method, or the library rejects
\* the compressed payload
DecodeFails(buf) ==
    \/ buf.enc_method = 3
    \/ buf.comp_method = 3
    \/ buf.comp_method \in {1, 2} /\ buf.inflated = Corrupt

\* C2: a decode failure (decompression failure, unsupported method) on the
\* block of one record does not abort the iteration: in a dictionary whose
\* blocks use no Salsa20, once the iteration is over one item was yielded
\* for every record of the table, failing block or not.
C2_IterationSurvivesDecodeFailure ==
    (/\ it_pc \in {"done", "panic"}
     /\ \A n \in 1..Len(record_block_buf) : record_block_buf[n].enc_method /= 2)
    => Len(yielded) = Len(records_offset)

=============================================================================
